---- MODULE Spec2Model ----
(***************************************************************************)
(* Model of PythonTutorialLogicCircuits/main.py: the Connector/LC logic   *)
(* circuit simulator (Connector.set propagation, Not/And/Or/Xor gates,     *)
(* HalfAdder, FullAdder) and the 8-bit operations built on it (addcarry,   *)
(* increment, complementOne, negateNumber, PassTrough, Substraction).      *)
(*                                                                         *)
(* Python objects are identified by the attribute path that reaches them   *)
(* from the variable that holds the root object: the connector F3.H1.X1.A  *)
(* is <<"F3","H1","X1","A">>.  Python values are modelled by the strings   *)
(* "None", "0", "False", "True" so that None, the int 0 and the bool False *)
(* stay distinct while 0 == False holds, as in Python.                     *)
(***************************************************************************)
EXTENDS Integers, Sequences, FiniteSets, TLC

VARIABLES
    circuit,  \* the objects of the circuit in use and what the last call did
    kind,     \* bench: the class of the component under test
    call,     \* bench: the last top-level Connector.set call: its connector,
              \* its argument and the connector's value before it
    op,       \* the 8-bit operation the caller invoked, or "idle"
    a, b,     \* its bit-string arguments (b is <<>> for a one-argument call)
    round,    \* how many operations the caller has invoked so far
    first,    \* the first argument of the caller's first operation
    fn,       \* the function whose body is running, or "none"
    fnA, fnB, \* the arguments of fn
    pc,       \* the index of fn's next statement
    result,   \* what op returned (<<>> until it returns)
    stdout,   \* what the operation itself printed
    raised    \* the exception that ended op, or "none"

vars ==
    <<circuit, kind, call, op, a, b, round, first, fn, fnA, fnB, pc, result,
      stdout, raised>>

----------------------------------------------------------------------------
(* Python values and the operators the gates use on them *)

None == "None"
PyFalse == "False"
PyTrue == "True"
PyZero == "0"

Val == {None, PyZero, PyFalse, PyTrue}
PyBool == {PyFalse, PyTrue}

\* Python ==: bool is a subclass of int, so 0 == False
PyEq(x, y) ==
    \/ x = y
    \/ {x, y} = {PyZero, PyFalse}

\* the truth value of x: None, 0 and False are falsy
Truthy(x) == x = PyTrue

\* x and y: x when x is falsy, else y
PyAnd(x, y) == IF Truthy(x) THEN y ELSE x

\* x or y: x when x is truthy, else y
PyOr(x, y) == IF Truthy(x) THEN x ELSE y

\* not x: always a bool
PyNot(x) == IF Truthy(x) THEN PyFalse ELSE PyTrue

\* int(x) for the values int accepts (int(None) raises TypeError)
PyInt(x) == IF Truthy(x) THEN 1 ELSE 0

----------------------------------------------------------------------------
(* Object graph.  A circuit is a record of the attributes of its         *)
(* connectors (value, connects, activates, monitor) and of its components  *)
(* (cls, the class that decides which evaluate runs, and name), with the   *)
(* lines printed (out) and the number of evaluate calls (evals) since the  *)
(* last top-level call on the circuit began.  log is the sequence of steps *)
(* taken since then, each with the depth of the Connector.set frame that   *)
(* took it, and depth is the number of Connector.set frames on the call    *)
(* stack.                                                                  *)

owner(c) == SubSeq(c, 1, Len(c) - 1)
cname(c) == c[Len(c)]

\* the objects of two separately constructed circuits, taken together
Merge(g, h) ==
    [value |-> g.value @@ h.value,
     connects |-> g.connects @@ h.connects,
     activates |-> g.activates @@ h.activates,
     monitor |-> g.monitor @@ h.monitor,
     cls |-> g.cls @@ h.cls,
     name |-> g.name @@ h.name,
     out |-> g.out \o h.out,
     evals |-> g.evals + h.evals,
     log |-> g.log \o h.log,
     depth |-> g.depth + h.depth]

RECURSIVE Objects(_)
\* the objects of the circuits in a list, taken together
Objects(parts) ==
    IF Len(parts) = 1 THEN parts[1] ELSE Merge(parts[1], Objects(Tail(parts)))

\* Connector.__init__: the connector `attr` of the object at path o
Connector(o, attr, activates, monitor) ==
    LET c == Append(o, attr)
    IN [value |-> (c :> None),
        connects |-> (c :> <<>>),
        activates |-> (c :> activates),
        monitor |-> (c :> monitor),
        cls |-> <<>>, name |-> <<>>, out |-> <<>>, evals |-> 0,
        log |-> <<>>, depth |-> 0]

\* Connector.connect replacing the list instead of appending to it
connectReplaces(g, c, inputs) == [g EXCEPT !.connects[c] = inputs]

\* Connector.connect with a list argument
connect(g, c, inputs) == [g EXCEPT !.connects[c] = @ \o inputs]

\* Connector.connect with a single connector: wrapped into a list first
connectOne(g, c, input) == connect(g, c, <<input>>)

RECURSIVE connectAll(_, _)
\* the connect statements of a constructor, in order: each wire is a
\* connector and the list it is connected to
connectAll(g, wires) ==
    IF wires = <<>>
    THEN g
    ELSE connectAll(connect(g, wires[1][1], wires[1][2]), Tail(wires))

\* LC.__init__, with the class of the object
LC(o, class, name) ==
    [value |-> <<>>, connects |-> <<>>, activates |-> <<>>, monitor |-> <<>>,
     cls |-> (o :> class), name |-> (o :> name), out |-> <<>>, evals |-> 0,
     log |-> <<>>, depth |-> 0]

Not(o, name) ==
    Objects(<<LC(o, "Not", name),
              Connector(o, "A", TRUE, FALSE),
              Connector(o, "B", FALSE, FALSE)>>)

Gate2(o, class, name) ==
    Objects(<<LC(o, class, name),
              Connector(o, "A", TRUE, FALSE),
              Connector(o, "B", TRUE, FALSE),
              Connector(o, "C", FALSE, FALSE)>>)

And(o, name) == Gate2(o, "And", name)

Or(o, name) == Gate2(o, "Or", name)

\* Xor with the two inverter outputs connected to the wrong And gates
XorCrossed(o, name) ==
    connectAll(
        Objects(<<Gate2(o, "Xor", name),
                  And(Append(o, "A1"), "A1"),
                  And(Append(o, "A2"), "A2"),
                  Not(Append(o, "I1"), "I1"),
                  Not(Append(o, "I2"), "I2"),
                  Or(Append(o, "O1"), "O1")>>),
        <<<<o \o <<"A">>, <<o \o <<"A1", "A">>, o \o <<"I2", "A">>>>>>,
          <<o \o <<"B">>, <<o \o <<"I1", "A">>, o \o <<"A2", "A">>>>>>,
          <<o \o <<"I1", "B">>, <<o \o <<"A2", "B">>>>>>,
          <<o \o <<"I2", "B">>, <<o \o <<"A1", "B">>>>>>,
          <<o \o <<"A1", "C">>, <<o \o <<"O1", "A">>>>>>,
          <<o \o <<"A2", "C">>, <<o \o <<"O1", "B">>>>>>,
          <<o \o <<"O1", "C">>, <<o \o <<"C">>>>>>>>)

Xor(o, name) ==
    connectAll(
        Objects(<<Gate2(o, "Xor", name),
                  And(Append(o, "A1"), "A1"),
                  And(Append(o, "A2"), "A2"),
                  Not(Append(o, "I1"), "I1"),
                  Not(Append(o, "I2"), "I2"),
                  Or(Append(o, "O1"), "O1")>>),
        <<<<o \o <<"A">>, <<o \o <<"A1", "A">>, o \o <<"I2", "A">>>>>>,
          <<o \o <<"B">>, <<o \o <<"I1", "A">>, o \o <<"A2", "A">>>>>>,
          <<o \o <<"I1", "B">>, <<o \o <<"A1", "B">>>>>>,
          <<o \o <<"I2", "B">>, <<o \o <<"A2", "B">>>>>>,
          <<o \o <<"A1", "C">>, <<o \o <<"O1", "A">>>>>>,
          <<o \o <<"A2", "C">>, <<o \o <<"O1", "B">>>>>>,
          <<o \o <<"O1", "C">>, <<o \o <<"C">>>>>>>>)

\* HalfAdder with the Xor driving C and the And driving S
HalfAdderOutputsExchanged(o, name) ==
    connectAll(
        Objects(<<LC(o, "HalfAdder", name),
                  Connector(o, "A", TRUE, FALSE),
                  Connector(o, "B", TRUE, FALSE),
                  Connector(o, "S", FALSE, FALSE),
                  Connector(o, "C", FALSE, FALSE),
                  Xor(Append(o, "X1"), "X1"),
                  And(Append(o, "A1"), "A1")>>),
        <<<<o \o <<"A">>, <<o \o <<"X1", "A">>, o \o <<"A1", "A">>>>>>,
          <<o \o <<"B">>, <<o \o <<"X1", "B">>, o \o <<"A1", "B">>>>>>,
          <<o \o <<"X1", "C">>, <<o \o <<"C">>>>>>,
          <<o \o <<"A1", "C">>, <<o \o <<"S">>>>>>>>)

HalfAdder(o, name) ==
    connectAll(
        Objects(<<LC(o, "HalfAdder", name),
                  Connector(o, "A", TRUE, FALSE),
                  Connector(o, "B", TRUE, FALSE),
                  Connector(o, "S", FALSE, FALSE),
                  Connector(o, "C", FALSE, FALSE),
                  Xor(Append(o, "X1"), "X1"),
                  And(Append(o, "A1"), "A1")>>),
        <<<<o \o <<"A">>, <<o \o <<"X1", "A">>, o \o <<"A1", "A">>>>>>,
          <<o \o <<"B">>, <<o \o <<"X1", "B">>, o \o <<"A1", "B">>>>>>,
          <<o \o <<"X1", "C">>, <<o \o <<"S">>>>>>,
          <<o \o <<"A1", "C">>, <<o \o <<"C">>>>>>>>)

\* FullAdder without the connection of H1.C to O1.B
FullAdderLosesCarry(o, name) ==
    connectAll(
        Objects(<<LC(o, "FullAdder", name),
                  Connector(o, "A", TRUE, TRUE),
                  Connector(o, "B", TRUE, TRUE),
                  Connector(o, "Cin", TRUE, TRUE),
                  Connector(o, "S", FALSE, TRUE),
                  Connector(o, "Cout", FALSE, TRUE),
                  HalfAdder(Append(o, "H1"), "H1"),
                  HalfAdder(Append(o, "H2"), "H2"),
                  Or(Append(o, "O1"), "O1")>>),
        <<<<o \o <<"A">>, <<o \o <<"H1", "A">>>>>>,
          <<o \o <<"B">>, <<o \o <<"H1", "B">>>>>>,
          <<o \o <<"Cin">>, <<o \o <<"H2", "A">>>>>>,
          <<o \o <<"H1", "S">>, <<o \o <<"H2", "B">>>>>>,
          <<o \o <<"H2", "C">>, <<o \o <<"O1", "A">>>>>>,
          <<o \o <<"H2", "S">>, <<o \o <<"S">>>>>>,
          <<o \o <<"O1", "C">>, <<o \o <<"Cout">>>>>>>>)

FullAdder(o, name) ==
    connectAll(
        Objects(<<LC(o, "FullAdder", name),
                  Connector(o, "A", TRUE, TRUE),
                  Connector(o, "B", TRUE, TRUE),
                  Connector(o, "Cin", TRUE, TRUE),
                  Connector(o, "S", FALSE, TRUE),
                  Connector(o, "Cout", FALSE, TRUE),
                  HalfAdder(Append(o, "H1"), "H1"),
                  HalfAdder(Append(o, "H2"), "H2"),
                  Or(Append(o, "O1"), "O1")>>),
        <<<<o \o <<"A">>, <<o \o <<"H1", "A">>>>>>,
          <<o \o <<"B">>, <<o \o <<"H1", "B">>>>>>,
          <<o \o <<"Cin">>, <<o \o <<"H2", "A">>>>>>,
          <<o \o <<"H1", "S">>, <<o \o <<"H2", "B">>>>>>,
          <<o \o <<"H1", "C">>, <<o \o <<"O1", "B">>>>>>,
          <<o \o <<"H2", "C">>, <<o \o <<"O1", "A">>>>>>,
          <<o \o <<"H2", "S">>, <<o \o <<"S">>>>>>,
          <<o \o <<"O1", "C">>, <<o \o <<"Cout">>>>>>>>)

----------------------------------------------------------------------------
(* Propagation: Connector.set and the evaluate methods *)

RECURSIVE set(_, _, _), evaluate(_, _), setEach(_, _, _, _)

\* the line print() writes for a monitored connector
Printed(g, c) == <<g.name[owner(c)], cname(c), g.value[c]>>

\* a step of the Connector.set frame now running (for "set": of the frame
\* the call opens)
Event(g, what, x, value) == <<what, x, value, g.depth>>

\* Connector.set comparing with `is` instead of ==
setIs(g, c, value) ==
    IF g.value[c] = value
    THEN [g EXCEPT !.log = Append(@, <<"set", c, value, g.depth + 1>>)]
    ELSE LET g1 == [g EXCEPT !.depth = @ + 1,
                             !.log = @ \o <<<<"set", c, value, g.depth + 1>>,
                                            <<"store", c, value, g.depth + 1>>>>,
                             !.value[c] = value]
             g2 == IF g1.activates[c] THEN evaluate(g1, owner(c)) ELSE g1
             g3 == IF g2.monitor[c]
                   THEN [g2 EXCEPT !.out = Append(@, Printed(g2, c)),
                                   !.log = Append(@, Event(g2, "print", c, g2.value[c]))]
                   ELSE g2
         IN [setEach(g3, c, Len(g.connects[c]), value) EXCEPT !.depth = @ - 1]

\* Connector.set printing before it stores the value
setPrintsStale(g, c, value) ==
    IF PyEq(g.value[c], value)
    THEN [g EXCEPT !.log = Append(@, <<"set", c, value, g.depth + 1>>)]
    ELSE LET g0 == [g EXCEPT !.depth = @ + 1,
                             !.log = Append(@, <<"set", c, value, g.depth + 1>>)]
             g1 == IF g0.monitor[c]
                   THEN [g0 EXCEPT !.out = Append(@, Printed(g0, c)),
                                   !.log = Append(@, Event(g0, "print", c, g0.value[c]))]
                   ELSE g0
             g2 == [g1 EXCEPT !.log = Append(@, Event(g1, "store", c, value)),
                              !.value[c] = value]
             g3 == IF g2.activates[c] THEN evaluate(g2, owner(c)) ELSE g2
         IN [setEach(g3, c, Len(g.connects[c]), value) EXCEPT !.depth = @ - 1]

\* Connector.set printing before it runs the owner's evaluate
setPrintsFirst(g, c, value) ==
    IF PyEq(g.value[c], value)
    THEN [g EXCEPT !.log = Append(@, <<"set", c, value, g.depth + 1>>)]
    ELSE LET g1 == [g EXCEPT !.depth = @ + 1,
                             !.log = @ \o <<<<"set", c, value, g.depth + 1>>,
                                            <<"store", c, value, g.depth + 1>>>>,
                             !.value[c] = value]
             g2 == IF g1.monitor[c]
                   THEN [g1 EXCEPT !.out = Append(@, Printed(g1, c)),
                                   !.log = Append(@, Event(g1, "print", c, g1.value[c]))]
                   ELSE g1
             g3 == IF g2.activates[c] THEN evaluate(g2, owner(c)) ELSE g2
         IN [setEach(g3, c, Len(g.connects[c]), value) EXCEPT !.depth = @ - 1]

\* Connector.set: the return on an unchanged value; else the store, the
\* owner's evaluate, the print, the loop over the connected inputs and the
\* return
set(g, c, value) ==
    IF PyEq(g.value[c], value)
    THEN [g EXCEPT !.log = Append(@, <<"set", c, value, g.depth + 1>>)]
    ELSE LET g1 == [g EXCEPT !.depth = @ + 1,
                             !.log = @ \o <<<<"set", c, value, g.depth + 1>>,
                                            <<"store", c, value, g.depth + 1>>>>,
                             !.value[c] = value]
             g2 == IF g1.activates[c] THEN evaluate(g1, owner(c)) ELSE g1
             g3 == IF g2.monitor[c]
                   THEN [g2 EXCEPT !.out = Append(@, Printed(g2, c)),
                                   !.log = Append(@, Event(g2, "print", c, g2.value[c]))]
                   ELSE g2
         IN [setEach(g3, c, Len(g.connects[c]), value) EXCEPT !.depth = @ - 1]

\* the loop leaving after the first connected input
setEachFirstOnly(g, c, i, value) ==
    IF i = 0
    THEN g
    ELSE IF i > 1
         THEN setEach(g, c, 1, value)
         ELSE set(setEach(g, c, i - 1, value), g.connects[c][i], value)

\* the loop `for con in self.connects: con.set(value)` up to its i-th
\* round, from the state g the loop starts in
setEach(g, c, i, value) ==
    IF i = 0
    THEN g
    ELSE set(setEach(g, c, i - 1, value), g.connects[c][i], value)

\* owner.evaluate(): Not, And and Or override it, every other class
\* inherits LC.evaluate, which does nothing
evaluate(g, o) ==
    LET g1 == [g EXCEPT !.evals = @ + 1,
                        !.log = Append(@, Event(g, "evaluate", o, None))]
    IN CASE g.cls[o] = "Not" ->
              set(g1, Append(o, "B"), PyNot(g1.value[Append(o, "A")]))
         [] g.cls[o] = "And" ->
              set(g1, Append(o, "C"),
                  PyAnd(g1.value[Append(o, "A")], g1.value[Append(o, "B")]))
         [] g.cls[o] = "Or" ->
              set(g1, Append(o, "C"),
                  PyOr(g1.value[Append(o, "A")], g1.value[Append(o, "B")]))
         [] OTHER -> g1

----------------------------------------------------------------------------
(* The 8-bit operations.  Each one builds a circuit and then runs a        *)
(* straight line of top-level statements on it: Connector.set calls and,   *)
(* in some, evaluate calls.                                                *)

Stages == 8

\* the local variables F0 .. F7 of the 8-bit operations
F(i) == <<"F0", "F1", "F2", "F3", "F4", "F5", "F6", "F7">>[i + 1]

\* what x[bit] raises when bit is not an index of x
IndexError == "IndexError"

\* bit(x, bit): x[bit] == '1' (Python indexes from 0)
bit(s, i) ==
    IF i + 1 > Len(s)
    THEN IndexError
    ELSE IF s[i + 1] = "1" THEN PyTrue ELSE PyFalse

\* the statement raises while its argument is evaluated
Raises(stmt) == stmt[1] = "set" /\ stmt[3] = IndexError

\* one top-level statement, from a circuit with nothing printed yet
exec(g, stmt) ==
    LET g0 == [g EXCEPT !.out = <<>>, !.evals = 0, !.log = <<>>, !.depth = 0]
    IN IF stmt[1] = "set"
       THEN set(g0, stmt[2], stmt[3])
       ELSE evaluate(g0, stmt[2])

RECURSIVE addcarryStagesUnchained(_, _, _)
\* the stages of addcarry without the Cout to Cin connections
addcarryStagesUnchained(g, i, n) ==
    IF i = n
    THEN g
    ELSE addcarryStagesUnchained(Merge(g, FullAdder(<<F(i)>>, F(i))), i + 1, n)

RECURSIVE addcarryStagesLooped(_, _, _)
\* the stages of addcarry, each one's S connected back to its own Cin
addcarryStagesLooped(g, i, n) ==
    IF i = n
    THEN g
    ELSE addcarryStagesLooped(
             connectOne(connectOne(Merge(g, FullAdder(<<F(i)>>, F(i))),
                                   <<F(i - 1), "Cout">>, <<F(i), "Cin">>),
                        <<F(i), "S">>, <<F(i), "Cin">>),
             i + 1, n)

RECURSIVE addcarryStages(_, _, _)
\* Fi .. F(n-1) of addcarry, each one's Cin connected to the Cout before it
addcarryStages(g, i, n) ==
    IF i = n
    THEN g
    ELSE addcarryStages(
             connectOne(Merge(g, FullAdder(<<F(i)>>, F(i))),
                        <<F(i - 1), "Cout">>, <<F(i), "Cin">>),
             i + 1, n)

\* the circuit addcarry builds before it sets any input
addcarryCircuit == addcarryStages(FullAdder(<<F(0)>>, F(0)), 1, Stages)

\* F0.Cin.set(0), then Fi.A.set(bit(a, 7 - i)); Fi.B.set(bit(b, 7 - i))
addcarryStmts(s, t) ==
    << <<"set", <<F(0), "Cin">>, PyZero>> >>
        \o [k \in 1..(2 * Stages) |->
               LET i == (k - 1) \div 2
               IN IF k % 2 = 1
                  THEN <<"set", <<F(i), "A">>, bit(s, 7 - i)>>
                  ELSE <<"set", <<F(i), "B">>, bit(t, 7 - i)>>]

\* the result list with the sums in the order F0 .. F7
adderResultF0First(g) ==
    <<g.value[<<F(7), "Cout">>]>>
        \o [k \in 1..Stages |-> g.value[<<F(k - 1), "S">>]]

\* [F7.Cout.value, F7.S.value, F6.S.value, ..., F0.S.value]
adderResult(g) ==
    <<g.value[<<F(7), "Cout">>]>>
        \o [k \in 1..Stages |-> g.value[<<F(Stages - k), "S">>]]

RECURSIVE incrementStagesUnchained(_, _)
\* the stages of increment without the Cout to Cin connections
incrementStagesUnchained(g, i) ==
    IF i = Stages
    THEN g
    ELSE incrementStagesUnchained(
             Objects(<<g, And(<<F(i), "name">>, F(i)),
                       FullAdder(<<F(i)>>, <<F(i), "name">>)>>),
             i + 1)

RECURSIVE incrementStages(_, _)
\* F1 .. F7 of increment: FullAdder(And("Fi")), the And object is the name
incrementStages(g, i) ==
    IF i = Stages
    THEN g
    ELSE incrementStages(
             connectOne(Objects(<<g, And(<<F(i), "name">>, F(i)),
                                  FullAdder(<<F(i)>>, <<F(i), "name">>)>>),
                        <<F(i - 1), "Cout">>, <<F(i), "Cin">>),
             i + 1)

incrementCircuit ==
    incrementStages(
        Merge(And(<<F(0), "name">>, F(0)), FullAdder(<<F(0)>>, <<F(0), "name">>)),
        1)

\* F0.Cin.set(0), then Fi.A.set(..); Fi.B.set(..); Fi.evaluate()
incrementStmts(s, t) ==
    << <<"set", <<F(0), "Cin">>, PyZero>> >>
        \o [k \in 1..(3 * Stages) |->
               LET i == (k - 1) \div 3
               IN CASE k % 3 = 1 -> <<"set", <<F(i), "A">>, bit(s, 7 - i)>>
                    [] k % 3 = 2 -> <<"set", <<F(i), "B">>, bit(t, 7 - i)>>
                    [] OTHER -> <<"evaluate", <<F(i)>>>>]

RECURSIVE inverterGates(_, _)
\* F1 .. F7 of complementOne: unconnected inverters
inverterGates(g, i) ==
    IF i = Stages THEN g ELSE inverterGates(Merge(g, Not(<<F(i)>>, F(i))), i + 1)

complementOneCircuit == inverterGates(Not(<<F(0)>>, F(0)), 1)

\* Fi.A.set(bit(a, 7 - i)); Fi.evaluate()
inverterStmts(s) ==
    [k \in 1..(2 * Stages) |->
        LET i == (k - 1) \div 2
        IN IF k % 2 = 1
           THEN <<"set", <<F(i), "A">>, bit(s, 7 - i)>>
           ELSE <<"evaluate", <<F(i)>>>>]

\* the result list in the order F0 .. F7
inverterResultF0First(g) == [k \in 1..Stages |-> g.value[<<F(k - 1), "B">>]]

\* [F7.B.value, F6.B.value, ..., F0.B.value]
inverterResult(g) == [k \in 1..Stages |-> g.value[<<F(Stages - k), "B">>]]

\* the loop of negateNumber with its two branches exchanged
negateDigitsExchanged(r) ==
    [k \in DOMAIN r |-> IF PyEq(r[k], PyFalse) THEN "1" ELSE "0"]

\* the loop of negateNumber: 0 for an element == False, 1 for any other,
\* then "".join of their str()
negateDigits(r) ==
    [k \in DOMAIN r |-> IF PyEq(r[k], PyFalse) THEN "0" ELSE "1"]

\* the second argument negateNumber gives increment
One == <<"0", "0", "0", "0", "0", "0", "0", "1">>

\* toString of PassTrough and Substraction: str(int(bit)) of each element
toString(byte) ==
    [k \in DOMAIN byte |-> IF PyInt(byte[k]) = 1 THEN "1" ELSE "0"]

RECURSIVE PassTroughGates(_, _)
\* F1 .. F7 of PassTrough: Not(Not("Fi")), one inverter whose name is
\* another, unconnected inverter
PassTroughGates(g, i) ==
    IF i = Stages
    THEN g
    ELSE PassTroughGates(
             Objects(<<g, Not(<<F(i), "name">>, F(i)),
                       Not(<<F(i)>>, <<F(i), "name">>)>>),
             i + 1)

PassTroughCircuit ==
    PassTroughGates(
        Merge(Not(<<F(0), "name">>, F(0)), Not(<<F(0)>>, <<F(0), "name">>)), 1)

\* the circuit a function builds and the statements it then runs
Circuit(f) ==
    CASE f = "addcarry" -> addcarryCircuit
      [] f = "increment" -> incrementCircuit
      [] f = "complementOne" -> complementOneCircuit
      [] f = "PassTrough" -> PassTroughCircuit

Stmts(f, s, t) ==
    CASE f = "addcarry" -> addcarryStmts(s, t)
      [] f = "increment" -> incrementStmts(s, t)
      [] f = "complementOne" -> inverterStmts(s)
      [] f = "PassTrough" -> inverterStmts(s)

RECURSIVE runStmts(_, _, _)
\* the statements of a function body from the i-th on, run on the circuit
\* g: each one once the one before it has returned
runStmts(g, stmts, i) ==
    IF i > Len(stmts)
    THEN g
    ELSE LET h == exec(g, stmts[i])
         IN IF h.depth = 0 THEN runStmts(h, stmts, i + 1) ELSE h

\* what addcarry(s, t) returns: its circuit built, its statements run, the
\* result list read
addcarryRun(s, t) ==
    adderResult(runStmts(addcarryCircuit, addcarryStmts(s, t), 1))

----------------------------------------------------------------------------
(* Bounds of the model *)

\* operands are the bytes within Near of 0 or of 256, and a few patterns
Near == 3
Patterns == {85, 170, 127, 128, 149, 198}

\* how many operations the caller invokes, each on the result of the last
MaxRounds == 2

\* how many stages of the carry chain are driven input by input
RippleStages == 2

\* connectors passed to connect calls on the wiring bench, at most
MaxWires == 3

\* the 8-character bit-string of n, most significant bit first
Bits(n) == [k \in 1..8 |-> IF (n \div (2 ^ (8 - k))) % 2 = 1 THEN "1" ELSE "0"]

Operands ==
    {Bits(n) : n \in {m \in 0..255 : m < Near \/ m >= 256 - Near \/ m \in Patterns}}

----------------------------------------------------------------------------
(* The bench: one component of the library, driven by top-level            *)
(* Connector.set calls                                                     *)

BenchKinds == {"Not", "And", "Or", "Xor", "HalfAdder", "FullAdder"}

\* the component under test, constructed with the name "G"
Bench(k) ==
    CASE k = "Not" -> Not(<<>>, "G")
      [] k = "And" -> And(<<>>, "G")
      [] k = "Or" -> Or(<<>>, "G")
      [] k = "Xor" -> Xor(<<>>, "G")
      [] k = "HalfAdder" -> HalfAdder(<<>>, "G")
      [] k = "FullAdder" -> FullAdder(<<>>, "G")

\* the inputs of the component under test
Inputs(g) == {c \in DOMAIN g.value : Len(c) = 1 /\ g.activates[c]}

NoCall == [conn |-> <<>>, value |-> None, before |-> None]

Idle ==
    /\ op = "idle" /\ a = <<>> /\ b = <<>> /\ round = 0 /\ first = <<>>
    /\ fn = "none" /\ fnA = <<>> /\ fnB = <<>> /\ pc = 0
    /\ result = <<>> /\ stdout = <<>> /\ raised = "none"

opVars == <<op, a, b, round, first, fn, fnA, fnB, pc, result, stdout, raised>>

Init ==
    /\ kind \in BenchKinds
    /\ circuit = Bench(kind)
    /\ call = NoCall
    /\ Idle

\* a top-level call c.set(v) on the component under test
Set(c, v) ==
    /\ circuit' = exec(circuit, <<"set", c, v>>)
    /\ call' = [conn |-> c, value |-> v, before |-> circuit.value[c]]
    /\ UNCHANGED <<kind, opVars>>

\* an input is set to a bool
SetInput == \E c \in Inputs(circuit), v \in PyBool : Set(c, v)

\* any connector is set to a value that == its current value
SetSame ==
    \E c \in DOMAIN circuit.value, v \in Val :
        /\ PyEq(circuit.value[c], v)
        /\ Set(c, v)

Next == SetInput \/ SetSame

Spec == Init /\ [][Next]_vars

----------------------------------------------------------------------------
(* The carry chain of addcarry, its first stages only: the inputs are set  *)
(* in the order addcarry sets them, then changed by top-level              *)
(* Connector.set calls in any order                                        *)

\* F0 .. F(n-1) of addcarry with the Cout to Cin connections between them
rippleCircuit(n) == addcarryStages(FullAdder(<<F(0)>>, F(0)), 1, n)

\* the connectors addcarry sets, in the order it sets them: F0.Cin, then
\* every stage's A and B
RippleInputs(g) ==
    <<<<F(0), "Cin">>>>
        \o [k \in 1..(2 * Cardinality({o \in DOMAIN g.cls : Len(o) = 1})) |->
               <<F((k - 1) \div 2), IF k % 2 = 1 THEN "A" ELSE "B">>]

\* the inputs not set yet
Unset(g) == {k \in DOMAIN RippleInputs(g) : g.value[RippleInputs(g)[k]] = None}

InitRipple ==
    /\ kind = "Ripple"
    /\ \E n \in 1..RippleStages : circuit = rippleCircuit(n)
    /\ call = NoCall
    /\ Idle

\* the next input in addcarry's order is set for the first time: F0.Cin
\* to 0 or a bool, the others to a bool
Load ==
    /\ Unset(circuit) # {}
    /\ LET k == CHOOSE k \in Unset(circuit) : \A j \in Unset(circuit) : k <= j
       IN \E v \in PyBool \cup {PyZero} :
              /\ v = PyZero => k = 1
              /\ Set(RippleInputs(circuit)[k], v)

\* an input is set again once all are set
Change ==
    /\ Unset(circuit) = {}
    /\ \E k \in DOMAIN RippleInputs(circuit), v \in PyBool :
           Set(RippleInputs(circuit)[k], v)

NextRipple == Load \/ Change

SpecRipple == InitRipple /\ [][NextRipple]_vars

----------------------------------------------------------------------------
(* The 8-bit operations, statement by statement *)

InitOps ==
    /\ kind = "none"
    /\ circuit = LC(<<>>, "none", "none")
    /\ call = NoCall
    /\ Idle

\* function f is entered with arguments s, t: it builds its circuit
Enter(f, s, t) ==
    /\ fn' = f /\ fnA' = s /\ fnB' = t /\ pc' = 1
    /\ circuit' = Circuit(f)

\* fn has run its last statement
AtReturn == fn # "none" /\ pc > Len(Stmts(fn, fnA, fnB))

\* the caller invokes operation o
Invoke(o, s, t) ==
    /\ op' = o /\ a' = s /\ b' = t
    /\ round' = round + 1
    /\ result' = <<>> /\ stdout' = <<>> /\ raised' = "none"
    /\ UNCHANGED <<kind, call>>

\* the function whose body runs first in operation o
FirstFn(o) ==
    CASE o \in {"negateNumber", "Substraction"} -> "complementOne"
      [] OTHER -> o

\* and its arguments: Substraction starts with negateNumber(b)
FirstArgs(o, s, t) ==
    CASE o \in {"addcarry", "increment"} -> <<s, t>>
      [] o = "Substraction" -> <<t, <<>>>>
      [] OTHER -> <<s, <<>>>>

Begin(o, s, t) == Enter(FirstFn(o), FirstArgs(o, s, t)[1], FirstArgs(o, s, t)[2])

CallAddcarry ==
    \E s \in Operands, t \in Operands :
        /\ op = "idle"
        /\ Invoke("addcarry", s, t) /\ first' = s /\ Begin("addcarry", s, t)

CallIncrement ==
    \E s \in Operands, t \in Operands :
        /\ op = "idle"
        /\ Invoke("increment", s, t) /\ first' = s /\ Begin("increment", s, t)

CallComplementOne ==
    \E s \in Operands :
        /\ op = "idle"
        /\ Invoke("complementOne", s, <<>>) /\ first' = s
        /\ Begin("complementOne", s, <<>>)

CallNegateNumber ==
    \E s \in Operands :
        /\ op = "idle"
        /\ Invoke("negateNumber", s, <<>>) /\ first' = s
        /\ Begin("negateNumber", s, <<>>)

CallPassTrough ==
    \E s \in Operands :
        /\ op = "idle"
        /\ Invoke("PassTrough", s, <<>>) /\ first' = s
        /\ Begin("PassTrough", s, <<>>)

CallSubstraction ==
    \E s \in Operands, t \in Operands :
        /\ op = "idle"
        /\ Invoke("Substraction", s, t) /\ first' = s
        /\ Begin("Substraction", s, t)

\* the next top-level statement of fn
Step ==
    /\ fn # "none"
    /\ pc <= Len(Stmts(fn, fnA, fnB))
    /\ ~Raises(Stmts(fn, fnA, fnB)[pc])
    /\ circuit' = exec(circuit, Stmts(fn, fnA, fnB)[pc])
    /\ pc' = pc + 1
    /\ UNCHANGED <<kind, call, op, a, b, round, first, fn, fnA, fnB, result,
                   stdout, raised>>

\* the next statement of fn raises: no function of the program catches
\* it, so it ends op
Raise ==
    /\ fn # "none"
    /\ pc <= Len(Stmts(fn, fnA, fnB))
    /\ Raises(Stmts(fn, fnA, fnB)[pc])
    /\ raised' = Stmts(fn, fnA, fnB)[pc][3]
    /\ fn' = "none" /\ pc' = 0
    /\ UNCHANGED <<circuit, kind, call, op, a, b, round, first, fnA, fnB, result,
                   stdout>>

\* op returns r to the caller
Return(r) ==
    /\ result' = r
    /\ fn' = "none" /\ pc' = 0
    /\ UNCHANGED <<circuit, kind, call, op, a, b, round, first, fnA, fnB, raised>>

ReturnAddcarry ==
    /\ AtReturn /\ fn = "addcarry" /\ op = "addcarry"
    /\ Return(adderResult(circuit)) /\ UNCHANGED stdout

ReturnIncrement ==
    /\ AtReturn /\ fn = "increment" /\ op = "increment"
    /\ Return(adderResult(circuit)) /\ UNCHANGED stdout

ReturnComplementOne ==
    /\ AtReturn /\ fn = "complementOne" /\ op = "complementOne"
    /\ Return(inverterResult(circuit)) /\ UNCHANGED stdout

ReturnPassTrough ==
    /\ AtReturn /\ fn = "PassTrough" /\ op = "PassTrough"
    /\ Return(toString(inverterResult(circuit))) /\ UNCHANGED stdout

\* negateNumber, after complementOne(a) returned: the digits of its
\* result go to increment with "00000001"
NegateIncrement ==
    /\ AtReturn /\ fn = "complementOne" /\ op \in {"negateNumber", "Substraction"}
    /\ Enter("increment", negateDigits(inverterResult(circuit)), One)
    /\ UNCHANGED <<kind, call, op, a, b, round, first, result, stdout, raised>>

ReturnNegateNumber ==
    /\ AtReturn /\ fn = "increment" /\ op = "negateNumber"
    /\ Return(adderResult(circuit)) /\ UNCHANGED stdout

\* Substraction, after negateNumber(b) returned: b = toString(..), then
\* addcarry(a, b)
SubstractionAdd ==
    /\ AtReturn /\ fn = "increment" /\ op = "Substraction"
    /\ Enter("addcarry", a, toString(adderResult(circuit)))
    /\ UNCHANGED <<kind, call, op, a, b, round, first, result, stdout, raised>>

\* Substraction, after addcarry returned c: return print(toString(c))
ReturnSubstraction ==
    /\ AtReturn /\ fn = "addcarry" /\ op = "Substraction"
    /\ stdout' = toString(adderResult(circuit))
    /\ Return(None)

\* op has returned or raised
Done == op # "idle" /\ fn = "none"

\* the last 8 elements of a returned list or string, as a bit-string
ResultBits(r) ==
    [k \in 1..8 |-> IF r[Len(r) - 8 + k] \in {PyTrue, "1"} THEN "1" ELSE "0"]

\* the caller invokes the same operation again on the 8 bits it returned
Again ==
    /\ Done /\ raised = "none" /\ round < MaxRounds /\ op # "Substraction"
    /\ Invoke(op, ResultBits(result), b)
    /\ Begin(op, ResultBits(result), b)
    /\ UNCHANGED first

NextOps ==
    \/ CallAddcarry \/ CallIncrement \/ CallComplementOne
    \/ CallNegateNumber \/ CallPassTrough \/ CallSubstraction
    \/ Step
    \/ ReturnAddcarry \/ ReturnIncrement \/ ReturnComplementOne
    \/ ReturnPassTrough \/ NegateIncrement \/ ReturnNegateNumber
    \/ SubstractionAdd \/ ReturnSubstraction
    \/ Again

SpecOps == InitOps /\ [][NextOps]_vars

----------------------------------------------------------------------------
(* Wiring by hand: two Nots and an And, the outputs of the Nots connected  *)
(* to inputs of later gates ("Only outputs should connect to inputs. Be     *)
(* careful NOT to have circular references") by connect calls, between     *)
(* top-level set calls on the inputs of the Nots                           *)

wireBench ==
    Merge(Merge(Not(<<"N1">>, "N1"), Not(<<"N2">>, "N2")), And(<<"G">>, "G"))

\* the outputs that are connected, and the inputs each may be connected to
WireSources == {<<"N1", "B">>, <<"N2", "B">>}

WireTargets(c) ==
    IF c = <<"N1", "B">>
    THEN {<<"N2", "A">>, <<"G", "A">>, <<"G", "B">>}
    ELSE {<<"G", "A">>, <<"G", "B">>}

\* the connectors passed to connect calls so far
WireCount(g) == Len(g.connects[<<"N1", "B">>]) + Len(g.connects[<<"N2", "B">>])

InitWire ==
    /\ kind = "Wire"
    /\ circuit = wireBench
    /\ call = NoCall
    /\ Idle

wireVars == <<kind, a, b, round, first, fn, fnA, fnB, pc, result, stdout, raised>>

\* c.connect(inputs) with a list
Connect ==
    \E c \in WireSources, n \in 0..(MaxWires - WireCount(circuit)) :
        \E inputs \in [1..n -> WireTargets(c)] :
            /\ circuit' = connect(circuit, c, inputs)
            /\ call' = [conn |-> c, value |-> inputs, before |-> circuit.connects[c]]
            /\ op' = "connect"
            /\ UNCHANGED wireVars

\* c.connect(input) with a single connector
ConnectOne ==
    \E c \in WireSources :
        \E input \in WireTargets(c) :
            /\ WireCount(circuit) < MaxWires
            /\ circuit' = connectOne(circuit, c, input)
            /\ call' = [conn |-> c, value |-> input, before |-> circuit.connects[c]]
            /\ op' = "connectOne"
            /\ UNCHANGED wireVars

\* a top-level call c.set(v) on the input of one of the Nots
WireSet ==
    \E c \in {<<"N1", "A">>, <<"N2", "A">>}, v \in PyBool :
        /\ circuit' = exec(circuit, <<"set", c, v>>)
        /\ call' = [conn |-> c, value |-> v, before |-> circuit.value[c]]
        /\ op' = "set"
        /\ UNCHANGED wireVars

NextWire == Connect \/ ConnectOne \/ WireSet

SpecWire == InitWire /\ [][NextWire]_vars

----------------------------------------------------------------------------
(* The public operations called with a malformed argument *)

\* '00000012', '000000011' and '0000001': a character that is not a bit,
\* a string too long, a string too short
Malformed ==
    {<<"0", "0", "0", "0", "0", "0", "1", "2">>,
     <<"0", "0", "0", "0", "0", "0", "0", "1", "1">>,
     <<"0", "0", "0", "0", "0", "0", "1">>}

\* the operations of one argument, and of two
Unary == {"complementOne", "negateNumber", "PassTrough"}
Binary == {"addcarry", "Substraction"}

CallMalformed ==
    /\ op = "idle"
    /\ \/ \E o \in Unary, s \in Malformed :
              /\ Invoke(o, s, <<>>) /\ first' = s /\ Begin(o, s, <<>>)
       \/ \E o \in Binary, s \in Operands \cup Malformed, t \in Operands \cup Malformed :
              /\ s \in Malformed \/ t \in Malformed
              /\ Invoke(o, s, t) /\ first' = s /\ Begin(o, s, t)

NextMalformed ==
    \/ CallMalformed
    \/ Step
    \/ Raise
    \/ ReturnAddcarry \/ ReturnComplementOne \/ ReturnPassTrough
    \/ NegateIncrement \/ ReturnNegateNumber
    \/ SubstractionAdd \/ ReturnSubstraction

SpecMalformed == InitOps /\ [][NextMalformed]_vars

----------------------------------------------------------------------------
(* Vocabulary of the properties *)

RECURSIVE Num(_)
\* the number a bit-string denotes, most significant bit first
Num(s) == IF s = <<>> THEN 0
          ELSE 2 * Num(SubSeq(s, 1, Len(s) - 1)) + (IF s[Len(s)] = "1" THEN 1 ELSE 0)

\* the Python bool of a TLA+ truth value
Py(t) == IF t THEN PyTrue ELSE PyFalse

\* the bits of n as 8 Python bools, most significant first
BoolBits(n) == [k \in 1..8 |-> bit(Bits(n), k - 1)]

Finished(o) == op = o /\ Done

----------------------------------------------------------------------------
(* C1: addcarry(a, b) returns 9 elements, the carry-out (true iff          *)
(* a + b >= 256) followed by the bits of (a + b) mod 256, most significant *)
(* first; addcarry("11111111", "00000001") is carry true, sum 00000000.    *)

AddcarryIsSum ==
    Finished("addcarry") =>
        /\ Len(result) = 9
        /\ result[1] = Py(Num(a) + Num(b) >= 256)
        /\ SubSeq(result, 2, 9) = BoolBits((Num(a) + Num(b)) % 256)

AddcarryOverflowSeen ==
    /\ Finished("addcarry")
    /\ a = Bits(255) /\ b = Bits(1)
    /\ result = <<PyTrue>> \o BoolBits(0)

(* C2: the 8-bit result of subtract(a, b) is (a - b) mod 256 (so adding b  *)
(* back recovers a).                                                       *)

SubstractionIsDifference ==
    Finished("Substraction") =>
        Num(SubSeq(stdout, Len(stdout) - 7, Len(stdout)))
            = (Num(a) - Num(b)) % 256

(* C3: passThrough(x) returns the original 8 bits: passThrough(x) = x.     *)

PassTroughIsIdentity == Finished("PassTrough") => result = a

(* C4: negateNumber(a) returns 9 elements: the carry out of incrementing   *)
(* the one's complement of a, then the bits of (256 - a) mod 256, most     *)
(* significant first.                                                      *)

NegateIsTwosComplement ==
    Finished("negateNumber") =>
        /\ Len(result) = 9
        /\ result[1] = Py((255 - Num(a)) + 1 >= 256)
        /\ SubSeq(result, 2, 9) = BoolBits((256 - Num(a)) % 256)

NegateSeen ==
    /\ Finished("negateNumber")
    /\ a = Bits(198)
    /\ result = <<PyFalse>> \o BoolBits(58)

----------------------------------------------------------------------------
(* C5: a set call whose value == the connector's current value is a       *)
(* no-op: no evaluate call, nothing printed, no connector changes.         *)

EqualSetIsNoOp ==
    [][PyEq(circuit.value[call'.conn], call'.value) =>
          /\ circuit'.value = circuit.value
          /\ circuit'.evals = 0
          /\ circuit'.out = <<>>]_vars

\* a monitored, activating input that holds False was set to 0
EqualSetSeen ==
    /\ kind = "FullAdder"
    /\ call = [conn |-> <<"A">>, value |-> PyZero, before |-> PyFalse]
    /\ circuit.value[<<"A">>] = PyFalse
    /\ circuit.value[<<"B">>] = PyTrue

----------------------------------------------------------------------------
(* C6: when a top-level set call that changed its connector returns, every *)
(* connector that depends on it is up to date: each fan-out target holds   *)
(* the value of its driver and each gate's output == its evaluate          *)
(* expression on its inputs' current values.                               *)

\* the connectors evaluate of the object o sets
Outputs(g, o) ==
    CASE g.cls[o] = "Not" -> {Append(o, "B")}
      [] g.cls[o] \in {"And", "Or"} -> {Append(o, "C")}
      [] OTHER -> {}

\* the connectors a change of c can reach in one step
Successors(g, c) ==
    {g.connects[c][i] : i \in DOMAIN g.connects[c]}
        \cup (IF g.activates[c] THEN Outputs(g, owner(c)) ELSE {})

RECURSIVE Reach(_, _, _)
Reach(g, seen, frontier) ==
    IF frontier = {}
    THEN seen
    ELSE LET new == UNION {Successors(g, c) : c \in frontier} \ seen
         IN Reach(g, seen \cup new, new)

\* c and every connector that depends on it
Dependents(g, c) == Reach(g, {c}, {c})

\* what evaluate of a gate would set its output to
GateValue(g, o) ==
    CASE g.cls[o] = "Not" -> PyNot(g.value[Append(o, "A")])
      [] g.cls[o] = "And" -> PyAnd(g.value[Append(o, "A")], g.value[Append(o, "B")])
      [] g.cls[o] = "Or" -> PyOr(g.value[Append(o, "A")], g.value[Append(o, "B")])

\* connector d has been delivered: its fan-out targets hold its value and
\* the gate it is an input of has evaluated
Delivered(g, d) ==
    /\ \A i \in DOMAIN g.connects[d] : PyEq(g.value[g.connects[d][i]], g.value[d])
    /\ g.activates[d] =>
           \A z \in Outputs(g, owner(d)) : PyEq(g.value[z], GateValue(g, owner(d)))

SetRunsToCompletion ==
    (call # NoCall /\ ~PyEq(call.before, call.value)) =>
        \A d \in Dependents(circuit, call.conn) : Delivered(circuit, d)

(* C6 as amended: when a top-level set call returns, every connector whose *)
(* value it changed has been delivered: its fan-out targets hold its value *)
(* and the gate it is an input of has its output == its evaluate           *)
(* expression on its inputs' current values.                               *)

ChangedSignalsDelivered ==
    [][\A d \in DOMAIN circuit.value :
          circuit'.value[d] # circuit.value[d] => Delivered(circuit', d)]_vars

\* a change of B has gone through both half adders to Cout
ChangedSignalsDeliveredSeen ==
    /\ kind = "FullAdder"
    /\ call.conn = <<"B">> /\ call.value = PyTrue /\ call.before = PyFalse
    /\ circuit.value[<<"Cin">>] = PyTrue
    /\ circuit.value[<<"Cout">>] = PyTrue

----------------------------------------------------------------------------
(* C7: whenever A, B and Cin of a FullAdder all hold bools,                *)
(* S = A xor B xor Cin and Cout = (A and B) or (Cin and (A xor B)).        *)

In(c) == Truthy(circuit.value[<<c>>])

FullAdderTruthTable ==
    (/\ kind = "FullAdder"
     /\ \A c \in {"A", "B", "Cin"} : circuit.value[<<c>>] \in PyBool) =>
        /\ circuit.value[<<"S">>] = Py((In("A") # In("B")) # In("Cin"))
        /\ circuit.value[<<"Cout">>] =
               Py((In("A") /\ In("B")) \/ (In("Cin") /\ (In("A") # In("B"))))

FullAdderCarrySeen ==
    /\ kind = "FullAdder"
    /\ circuit.value[<<"A">>] = PyTrue
    /\ circuit.value[<<"B">>] = PyFalse
    /\ circuit.value[<<"Cin">>] = PyTrue
    /\ circuit.value[<<"S">>] = PyFalse
    /\ circuit.value[<<"Cout">>] = PyTrue

(* C8: whenever all inputs of a gate hold bools, And.C = A and B,          *)
(* Or.C = A or B, Not.B = not A, Xor.C = A xor B.                          *)

GateTruthTables ==
    /\ (kind = "Not" /\ circuit.value[<<"A">>] \in PyBool) =>
           circuit.value[<<"B">>] = Py(~In("A"))
    /\ (/\ kind \in {"And", "Or", "Xor"}
        /\ circuit.value[<<"A">>] \in PyBool
        /\ circuit.value[<<"B">>] \in PyBool) =>
           circuit.value[<<"C">>] =
               Py(CASE kind = "And" -> In("A") /\ In("B")
                    [] kind = "Or" -> In("A") \/ In("B")
                    [] kind = "Xor" -> In("A") # In("B"))

XorSeen ==
    /\ kind = "Xor"
    /\ circuit.value[<<"A">>] = PyTrue
    /\ circuit.value[<<"B">>] = PyFalse
    /\ circuit.value[<<"C">>] = PyTrue

----------------------------------------------------------------------------
(* C9: complementOne(a) returns 8 values, the negations of the bits of a,  *)
(* most significant first; applied again to the digits of its result it    *)
(* returns the bits of the first argument.                                 *)

ComplementOneInverts ==
    Finished("complementOne") =>
        /\ result = [k \in 1..8 |-> PyNot(bit(a, k - 1))]
        /\ round = 2 => result = [k \in 1..8 |-> bit(first, k - 1)]

ComplementOneTwiceSeen ==
    /\ Finished("complementOne") /\ round = 2
    /\ first = Bits(198) /\ a = Bits(57)
    /\ result = BoolBits(198)

(* C10: negateNumber applied to the 8 sum bits of negateNumber(x) returns  *)
(* x in its 8 sum bits.                                                    *)

NegateTwiceIsIdentity ==
    (Finished("negateNumber") /\ round = 2) =>
        SubSeq(result, 2, 9) = [k \in 1..8 |-> bit(first, k - 1)]

NegateTwiceSeen ==
    /\ Finished("negateNumber") /\ round = 2
    /\ first = Bits(198) /\ a = Bits(58)
    /\ result = <<PyFalse>> \o BoolBits(198)

----------------------------------------------------------------------------
(* C11: whenever A and B of a HalfAdder both hold bools, S = A xor B and   *)
(* C = A and B.                                                            *)

HalfAdderTruthTable ==
    (/\ kind = "HalfAdder"
     /\ circuit.value[<<"A">>] \in PyBool
     /\ circuit.value[<<"B">>] \in PyBool) =>
        /\ circuit.value[<<"S">>] = Py(In("A") # In("B"))
        /\ circuit.value[<<"C">>] = Py(In("A") /\ In("B"))

\* (1,1) -> (0,1), reached by changing B after (1,0) -> (1,0)
HalfAdderCarrySeen ==
    /\ kind = "HalfAdder"
    /\ call.conn = <<"B">> /\ call.before = PyFalse /\ call.value = PyTrue
    /\ circuit.value[<<"A">>] = PyTrue
    /\ circuit.value[<<"S">>] = PyFalse
    /\ circuit.value[<<"C">>] = PyTrue

(* C12: Substraction(a, b) returns a value to its caller (the carry-out    *)
(* and the 8 result bits it computed), not None.                           *)

SubstractionReturnsResult == Finished("Substraction") => result # None

----------------------------------------------------------------------------
(* C13: every public operation called with a bit-string argument that is   *)
(* not exactly 8 characters long, or that holds a character other than     *)
(* '0' and '1', ends with an InvalidInput error and returns no result.     *)

WellFormed(s) == Len(s) = 8 /\ \A k \in 1..Len(s) : s[k] \in {"0", "1"}

MalformedIsRejected ==
    (Done /\ (~WellFormed(a) \/ (op \in Binary /\ ~WellFormed(b)))) =>
        raised = "InvalidInput"

----------------------------------------------------------------------------
(* C14: a set call that changes its connector takes its steps in a fixed   *)
(* order: it stores the value, then runs the owner's evaluate (if the      *)
(* connector activates) to completion, then prints (if monitored), then    *)
(* calls set with the same value on each connected input in list order,    *)
(* each of these calls completing all it causes before the next begins.    *)

\* where the frame of the call that log[i] opens ends: at the next step of
\* a frame below it, or the next call its caller makes
FrameEnd(log, i) ==
    LET after == {k \in (i + 1)..Len(log) :
                     \/ log[k][4] < log[i][4]
                     \/ log[k][4] = log[i][4] /\ log[k][1] = "set"}
    IN IF after = {} THEN Len(log) + 1
       ELSE CHOOSE k \in after : \A j \in after : k <= j

\* the steps the call that log[i] opens took itself, and the calls it made
\* (from its evaluate or its loop), in the order they happened
Steps(log, i) ==
    LET Own(e) == \/ e[4] = log[i][4] /\ e[1] # "set"
                  \/ e[4] = log[i][4] + 1 /\ e[1] = "set"
    IN SelectSeq(SubSeq(log, i + 1, FrameEnd(log, i) - 1), Own)

\* the steps of c.set(v) in the order the claim gives; "any" stands for
\* the value evaluate computes
Order(g, c, v) ==
    LET outs == Outputs(g, owner(c))
    IN <<<<"store", c, v>>>>
         \o (IF g.activates[c]
             THEN <<<<"evaluate", owner(c), None>>>>
                      \o [k \in 1..Cardinality(outs) |->
                              <<"set", CHOOSE z \in outs : TRUE, "any">>]
             ELSE <<>>)
         \o (IF g.monitor[c] THEN <<<<"print", c, v>>>> ELSE <<>>)
         \o [k \in 1..Len(g.connects[c]) |-> <<"set", g.connects[c][k], v>>]

\* the steps st are the steps ord, in that order
InOrder(st, ord) ==
    /\ Len(st) = Len(ord)
    /\ \A k \in 1..Len(st) :
           /\ st[k][1] = ord[k][1]
           /\ st[k][2] = ord[k][2]
           /\ ord[k][3] = "any" \/ st[k][3] = ord[k][3]

SetStepsInOrder ==
    \A i \in 1..Len(circuit.log) :
        (circuit.log[i][1] = "set" /\ Steps(circuit.log, i) # <<>>) =>
            InOrder(Steps(circuit.log, i),
                    Order(circuit, circuit.log[i][2], circuit.log[i][3]))

\* A.set(True) on a FullAdder stored, evaluated, printed, then called
\* H1.A.set(True)
SetStepsInOrderSeen ==
    /\ kind = "FullAdder"
    /\ Len(circuit.log) > 5
    /\ SubSeq(circuit.log, 1, 5) =
           <<<<"set", <<"A">>, PyTrue, 1>>,
             <<"store", <<"A">>, PyTrue, 1>>,
             <<"evaluate", <<>>, None, 1>>,
             <<"print", <<"A">>, PyTrue, 1>>,
             <<"set", <<"H1", "A">>, PyTrue, 2>>>>

----------------------------------------------------------------------------
(* C15: during a top-level set call on an input of a FullAdder (or of the  *)
(* carry chain) whose inputs all hold bools, every connector changes value *)
(* at most once, so each monitored connector prints at most once, and the  *)
(* value it prints is the value it holds when the call returns.            *)

\* log[k] is a store or a print, and at most n such steps on its connector
\* come up to it
AtMost(log, k, n) ==
    log[k][1] \in {"store", "print"} =>
        Cardinality({j \in 1..k : log[j][1] = log[k][1] /\ log[j][2] = log[k][2]}) <= n

\* the last top-level call was on an input of the chain (of one stage: of
\* a FullAdder), whose inputs all held bools
OnChain ==
    /\ call # NoCall
    /\ call.before \in PyBool
    /\ \A k \in DOMAIN RippleInputs(circuit) :
           circuit.value[RippleInputs(circuit)[k]] \in PyBool

SettlesInOneStep ==
    OnChain =>
        \A k \in 1..Len(circuit.log) :
            /\ AtMost(circuit.log, k, 1)
            /\ circuit.log[k][1] = "print" =>
                   circuit.log[k][3] = circuit.value[circuit.log[k][2]]

(* C15 as amended: during such a call every connector changes value at     *)
(* most twice, so each monitored connector prints at most twice, and the   *)
(* last value it prints is the value it holds when the call returns.       *)

\* log[k] is the last print of its connector
LastPrint(log, k) ==
    /\ log[k][1] = "print"
    /\ \A j \in (k + 1)..Len(log) : ~(log[j][1] = "print" /\ log[j][2] = log[k][2])

SettlesInTwoSteps ==
    OnChain =>
        \A k \in 1..Len(circuit.log) :
            /\ AtMost(circuit.log, k, 2)
            /\ LastPrint(circuit.log, k) =>
                   circuit.log[k][3] = circuit.value[circuit.log[k][2]]

\* F0.B.set(True) with A and Cin true: F0.Cout printed False, then True
SettlesInTwoStepsSeen ==
    /\ OnChain
    /\ call.conn = <<F(0), "B">> /\ call.value = PyTrue
    /\ SelectSeq(circuit.out, LAMBDA line : line[1] = F(0) /\ line[2] = "Cout")
           = <<<<F(0), "Cout", PyFalse>>, <<F(0), "Cout", PyTrue>>>>

----------------------------------------------------------------------------
(* C16: every circuit the library builds, the 8-stage chain of addcarry    *)
(* and increment with its FullAdders, HalfAdders and Xors included, has no *)
(* cycle in the graph of its connectors, with an edge for each entry of    *)
(* self.connects and one from each activating input to the outputs its     *)
(* owner's evaluate sets, when it is built and after every statement run  *)
(* on it; and every top-level call on it has returned.                     *)

RECURSIVE Prune(_, _)
\* the connectors of S left when those with no successor in S are removed
\* again and again: empty if and only if no cycle lies in S
Prune(succ, S) ==
    LET keep == {c \in S : succ[c] \cap S # {}}
    IN IF keep = S THEN S ELSE Prune(succ, keep)

Acyclic(g) ==
    LET succ == [c \in DOMAIN g.value |-> Successors(g, c)]
    IN Prune(succ, DOMAIN succ) = {}

\* no statement of a function body connects, creates or reclassifies
SameGraph(g, h) ==
    g.connects = h.connects /\ g.activates = h.activates /\ g.cls = h.cls

SignalGraphAcyclic ==
    [][/\ pc' = 1 => Acyclic(circuit')
       /\ pc' > 1 => (SameGraph(circuit, circuit') /\ circuit'.depth = 0)]_vars

\* addcarry: a carry has gone from F6.Cout along the chain into F7.Cin
SignalGraphAcyclicSeen ==
    /\ fn = "addcarry"
    /\ circuit.connects[<<F(6), "Cout">>] = <<<<F(7), "Cin">>>>
    /\ <<F(7), "Cin">> \in Successors(circuit, <<F(6), "Cout">>)
    /\ circuit.value[<<F(7), "Cin">>] = PyTrue

----------------------------------------------------------------------------
(* C17: a connect call, given one connector or a list of them, leaves the  *)
(* connector's connects list as it was with the connectors passed appended *)
(* in order, so that after any sequence of calls the list is all that was  *)
(* passed, in call order; it changes no other connects list and no value.  *)

\* the connectors passed to the connect call recorded in c
Passed(o, c) == IF o = "connect" THEN c.value ELSE <<c.value>>

ConnectAppends ==
    [][op' \in {"connect", "connectOne"} =>
          /\ circuit'.connects[call'.conn] =
                 circuit.connects[call'.conn] \o Passed(op', call')
          /\ \A d \in DOMAIN circuit.connects :
                 d # call'.conn => circuit'.connects[d] = circuit.connects[d]
          /\ DOMAIN circuit'.connects = DOMAIN circuit.connects
          /\ circuit'.value = circuit.value]_vars

\* N1.B, which holds a bool and was connected before, was connected to two
\* more inputs in one call; the first of them is still None
ConnectAppendsSeen ==
    /\ op = "connect"
    /\ call.conn = <<"N1", "B">>
    /\ call.before # <<>>
    /\ Len(call.value) = 2
    /\ circuit.connects[call.conn] = call.before \o call.value
    /\ circuit.value[call.conn] \in PyBool
    /\ circuit.value[call.value[1]] = None

----------------------------------------------------------------------------
(* C18: increment(a, b), called by the caller or by negateNumber, returns  *)
(* the 9-element list addcarry(a, b) returns; the connectors of the And    *)
(* that is each stage's name stay None, and the Fi.evaluate() statements    *)
(* store no value.                                                         *)

IncrementIsAddcarry ==
    fn = "increment" =>
        /\ (pc > 1 /\ Stmts(fn, fnA, fnB)[pc - 1][1] = "evaluate") =>
               /\ circuit.evals = 1
               /\ \A k \in DOMAIN circuit.log : circuit.log[k][1] # "store"
        /\ \A c \in DOMAIN circuit.value :
               (Len(c) = 3 /\ c[2] = "name") => circuit.value[c] = None
        /\ AtReturn => adderResult(circuit) = addcarryRun(fnA, fnB)

\* increment('11111111', '00000001') returned the list of '100000000', a
\* carry through every stage
IncrementIsAddcarrySeen ==
    /\ Finished("increment")
    /\ a = Bits(255) /\ b = Bits(1)
    /\ result = addcarryRun(a, b)
    /\ result[1] = PyTrue
    /\ \A k \in 2..9 : PyEq(result[k], PyFalse)

----------------------------------------------------------------------------
(* C19: under top-level set calls that give bools to the inputs of a gate  *)
(* or adder, starting with every connector None, a connector that holds a  *)
(* bool never holds None again, also while another input of its gate is    *)
(* still None.                                                             *)

DefinednessMonotone ==
    [][\A c \in DOMAIN circuit.value :
          circuit.value[c] \in PyBool => circuit'.value[c] # None]_vars

(* C19 as amended: an input that holds a bool never holds None again, and  *)
(* when a call returns with every input of the component holding a bool,   *)
(* every connector of the component holds a bool.                          *)

\* every input of the component under test holds a bool
InputsDefined(g) == \A c \in Inputs(g) : g.value[c] \in PyBool

DefinedOnceInputsAre ==
    [][/\ \A c \in Inputs(circuit) :
             circuit.value[c] \in PyBool => circuit'.value[c] \in PyBool
       /\ InputsDefined(circuit') =>
             \A c \in DOMAIN circuit'.value : circuit'.value[c] \in PyBool]_vars

\* Cin, the last input of a FullAdder still None, was set to a bool: every
\* connector of the FullAdder holds a bool
DefinedOnceInputsAreSeen ==
    /\ kind = "FullAdder"
    /\ call.conn = <<"Cin">> /\ call.before = None /\ call.value \in PyBool
    /\ InputsDefined(circuit)
    /\ \A c \in DOMAIN circuit.value : circuit.value[c] \in PyBool

====
